---- MODULE Spec2Model ----
(***************************************************************************)
(* Model of the `reduce` crate (src/src/lib.rs): the trait Reducable<T>    *)
(* with its provided method reduce and required method reduce_function,    *)
(* the helper get_initial, the implementation for Vec<T>, and the          *)
(* documented implementer struct A<T>.                                     *)
(*                                                                         *)
(* A behaviour is a caller that owns one container and makes up to         *)
(* MaxCalls calls of reduce on it.  The Vec loop is stepped one iteration  *)
(* at a time.  T is i32; R is i32 or Vec<i32>, fixed by the combining      *)
(* function in use.                                                        *)
(***************************************************************************)
EXTENDS Integers, Sequences, FiniteSets, TLC

\* ------------------------------------------------------------------ bounds
\* Longest Vec the caller builds (documented Vecs are added on top).
MaxLen == 3
\* Number of reduce calls the caller makes on its container.
MaxCalls == 2

\* --------------------------------------------------------------- constants
\* i32::MAX, the accumulator and element type of the documented calls.
I32Max == 2147483647
I32Min == (-I32Max) - 1

\* Element values the caller puts in its containers.
Elems == {-1, 0, 1, I32Max}

\* ------------------------------------------------------------ Option<R>
None == [some |-> FALSE]
Some(v) == [some |-> TRUE, val |-> v]

\* Outcome of evaluating a Rust expression: a value, or an unwinding panic
\* carrying its payload.
Ok(v) == [ok |-> TRUE, val |-> v]
Panic(msg) == [ok |-> FALSE, err |-> msg]

\* ------------------------------------------------- combining functions
\* The fn pointers the caller passes as fnc: fn(acc: R, cur: &T) -> R.
\*   add  : |acc, cur| acc + cur             (R = i32, the documented one)
\*   max  : |acc, cur| max(acc, *cur)        (R = i32)
\*   div  : |acc, cur| acc / cur             (R = i32, panics)
\*   push : |mut acc, cur| {acc.push(*cur); acc}   (R = Vec<i32>)
Fncs == {"add", "max", "div", "push"}

\* The build profile: i32 `+` panics on overflow with overflow checks on
\* (debug) and wraps with them off (release).
Builds == {"debug", "release"}

\* i32 addition acc + cur under build b, computed without leaving i32.
I32Add(b, acc, cur) ==
    IF cur > 0 /\ acc > I32Max - cur
    THEN IF b = "debug" THEN Panic("attempt to add with overflow")
         ELSE Ok((acc - I32Max) + (cur - I32Max) - 2)
    ELSE IF cur < 0 /\ acc < I32Min - cur
    THEN IF b = "debug" THEN Panic("attempt to add with overflow")
         ELSE Ok((acc - I32Min) + (cur - I32Min))
    ELSE Ok(acc + cur)

\* Quotient truncated toward zero, for a divisor d > 0.
TruncDivPos(a, d) ==
    IF a < 0 /\ a % d # 0 THEN (a \div d) + 1 ELSE a \div d

\* i32 division acc / cur: truncating; panics on a zero divisor and on
\* i32::MIN / -1 in every build.
I32Div(acc, cur) ==
    IF cur = 0 THEN Panic("attempt to divide by zero")
    ELSE IF acc = I32Min /\ cur = -1 THEN Panic("attempt to divide with overflow")
    ELSE IF cur > 0 THEN Ok(TruncDivPos(acc, cur))
    ELSE IF cur = I32Min THEN Ok(IF acc = I32Min THEN 1 ELSE 0)
    ELSE Ok(-TruncDivPos(acc, -cur))

\* fnc(acc, &cur) under build b.
Call(b, f, acc, cur) ==
    CASE f = "add"  -> I32Add(b, acc, cur)
      [] f = "max"  -> Ok(IF acc >= cur THEN acc ELSE cur)
      [] f = "div"  -> I32Div(acc, cur)
      [] f = "push" -> Ok(Append(acc, cur))

\* <R as Default>::default() for the accumulator type of f.
Default(f) == IF f = "push" THEN <<>> ELSE 0

\* ---------------------------------------------------------- get_initial
\* Variant that ignores the value supplied and always takes the default.
get_initial_ignores(f, initial) ==
    Default(f)

get_initial(f, initial) ==
    IF initial.some THEN initial.val ELSE Default(f)

\* ------------------------------------------------------------- inputs
RECURSIVE SeqsUpTo(_)
SeqsUpTo(n) ==
    IF n = 0 THEN {<<>>}
    ELSE LET shorter == SeqsUpTo(n - 1)
         IN shorter \cup {Append(s, e) : s \in {t \in shorter : Len(t) = n - 1}, e \in Elems}

\* vec![1, 2, 3, 4, 5] of the doc test of reduce, and [1, 2].
DocVecs == {<<1, 2, 3, 4, 5>>, <<1, 2>>}

VecOf(buf) == [kind |-> "Vec", buf |-> buf]
AOf(x, y) == [kind |-> "A", value1 |-> x, value2 |-> y]

Containers ==
    {VecOf(s) : s \in SeqsUpTo(MaxLen) \cup DocVecs}
    \cup {AOf(x, y) : x \in Elems, y \in Elems} \cup {AOf(1, 2)}

\* The `initial` arguments the caller passes with f.
Initials(f) ==
    IF f = "push" THEN {None, Some(<<>>), Some(<<7>>)}
    ELSE {None, Some(0), Some(10), Some(I32Min)}

\* -------------------------------------------------------------- state
VARIABLES
    self,           \* the caller's container, borrowed as &self by each call
    self0,          \* history: the container as the caller built it
    build,          \* the build profile of the program
    fnc,            \* the fn pointer the caller passes
    initial,        \* the Option<R> the caller passes to this call
    pc,             \* where the current call is
    rf_fnc,         \* reduce_function's parameter fnc (None outside it)
    initial_value,  \* reduce_function's parameter initial_value (None outside it)
    return_value,   \* the Vec loop's local; None while unbound or moved out
    iter,           \* position of the iterator of `for x in self`
    rf_result,      \* what reduce_function returned to reduce (None until then)
    result,         \* what reduce returned to the caller (None until then)
    panic,          \* payload of the panic unwinding out of reduce ("" if none)
    applied,        \* history: the applications of fnc made by this call
    rf_calls,       \* history: invocations of reduce_function by this call
    ncall,          \* number of the current call, 1..MaxCalls
    prev            \* history: the caller's record of its previous call

vars == <<self, self0, build, fnc, initial, pc, rf_fnc, initial_value, return_value,
          iter, rf_result, result, panic, applied, rf_calls, ncall, prev>>

NoPrev == [called |-> FALSE]

\* How the current call ended, as the caller sees it.
Ended == pc \in {"returned", "panicked"}
Outcome == IF pc = "returned" THEN Ok(result.val) ELSE Panic(panic)

\* The caller builds its container, picks the function and the first
\* `initial`, and is about to call self.reduce(fnc, initial).
Init ==
    /\ self \in Containers
    /\ self0 = self
    /\ build \in Builds
    /\ fnc \in Fncs
    /\ initial \in Initials(fnc)
    /\ pc = "idle"
    /\ rf_fnc = None
    /\ initial_value = None
    /\ return_value = None
    /\ iter = 0
    /\ rf_result = None
    /\ result = None
    /\ panic = ""
    /\ applied = <<>>
    /\ rf_calls = 0
    /\ ncall = 1
    /\ prev = NoPrev

\* One application fnc(acc, &elem) recorded in the history: idx is the
\* position in the container of the element borrowed.
Application(idx, acc, cur) == [idx |-> idx, acc |-> acc, cur |-> cur]

\* ------------------------------------------------- Reducable::reduce
\* reduce, up to and including the call self.reduce_function(fnc, unpacked_initial).
Reduce ==
    /\ pc = "idle"
    /\ LET unpacked_initial == get_initial(fnc, initial)
       IN /\ rf_fnc' = Some(fnc)
          /\ initial_value' = Some(unpacked_initial)
    /\ rf_calls' = rf_calls + 1
    /\ pc' = "reduce_function"
    /\ UNCHANGED <<self, self0, build, fnc, initial, return_value, iter, rf_result,
                   result, panic, applied, ncall, prev>>

\* reduce's tail expression: the value reduce_function returned is returned.
ReduceReturn ==
    /\ pc = "rf_returned"
    /\ result' = rf_result
    /\ pc' = "returned"
    /\ UNCHANGED <<self, self0, build, fnc, initial, rf_fnc, initial_value, return_value,
                   iter, rf_result, panic, applied, rf_calls, ncall, prev>>

\* ------------------------------- <Vec<T> as Reducable<T>>::reduce_function
\* `for x in self` iterates &Vec<T>: the element the iterator lends at
\* position i, and the position after it.
IterNext_rev(buf, i) == buf[Len(buf) + 1 - i]
IterNext(buf, i) == buf[i]

IterAdvance_skip(i) == i + 2
IterAdvance(i) == i + 1

\* Variant starting the fold from R's default instead of initial_value.
VecEnter_default ==
    /\ pc = "reduce_function"
    /\ self.kind = "Vec"
    /\ return_value' = Some(Default(rf_fnc.val))
    /\ initial_value' = None
    /\ iter' = 1
    /\ pc' = "loop"
    /\ UNCHANGED <<self, self0, build, fnc, initial, rf_fnc, rf_result, result, panic,
                   applied, rf_calls, ncall, prev>>

\* Variant whose iterator resumes where earlier calls left off instead of
\* starting at the first element.
VecEnter_shared_iter ==
    /\ pc = "reduce_function"
    /\ self.kind = "Vec"
    /\ return_value' = initial_value
    /\ initial_value' = None
    /\ iter' = ncall
    /\ pc' = "loop"
    /\ UNCHANGED <<self, self0, build, fnc, initial, rf_fnc, rf_result, result, panic,
                   applied, rf_calls, ncall, prev>>

\* let mut return_value = initial_value; and the loop's iterator is created.
VecEnter ==
    /\ pc = "reduce_function"
    /\ self.kind = "Vec"
    /\ return_value' = initial_value
    /\ initial_value' = None
    /\ iter' = 1
    /\ pc' = "loop"
    /\ UNCHANGED <<self, self0, build, fnc, initial, rf_fnc, rf_result, result, panic,
                   applied, rf_calls, ncall, prev>>

\* Variant iterating by value (as `for x in self.drain(..)` would): each
\* element is moved out of the container as it is visited.
VecLoop_drain ==
    /\ pc = "loop"
    /\ self.buf # <<>>
    /\ LET x == Head(self.buf)
           r == Call(build, rf_fnc.val, return_value.val, x)
       IN /\ applied' = Append(applied, Application(Len(applied) + 1, return_value.val, x))
          /\ self' = [self EXCEPT !.buf = Tail(@)]
          /\ iter' = 1
          /\ IF r.ok
             THEN /\ return_value' = Some(r.val)
                  /\ UNCHANGED <<pc, panic>>
             ELSE /\ return_value' = None
                  /\ panic' = r.err
                  /\ pc' = "panicked"
    /\ UNCHANGED <<self0, build, fnc, initial, rf_fnc, initial_value, rf_result,
                   result, rf_calls, ncall, prev>>

\* Variant that catches the panic of fnc, keeps the accumulator it had and
\* goes on with the next element.
VecLoop_catch ==
    /\ pc = "loop"
    /\ iter <= Len(self.buf)
    /\ LET x == IterNext(self.buf, iter)
           r == Call(build, rf_fnc.val, return_value.val, x)
       IN /\ applied' = Append(applied, Application(iter, return_value.val, x))
          /\ return_value' = IF r.ok THEN Some(r.val) ELSE return_value
          /\ iter' = IterAdvance(iter)
          /\ UNCHANGED <<pc, panic>>
    /\ UNCHANGED <<self, self0, build, fnc, initial, rf_fnc, initial_value, rf_result,
                   result, rf_calls, ncall, prev>>

\* One iteration: x = next element; return_value = fnc(return_value, x).
\* return_value is moved into the call; a panic unwinds out of
\* reduce_function and reduce, neither of which catches it.
VecLoop ==
    /\ pc = "loop"
    /\ iter <= Len(self.buf)
    /\ LET x == IterNext(self.buf, iter)
           r == Call(build, rf_fnc.val, return_value.val, x)
       IN /\ applied' = Append(applied, Application(iter, return_value.val, x))
          /\ IF r.ok
             THEN /\ return_value' = Some(r.val)
                  /\ iter' = IterAdvance(iter)
                  /\ UNCHANGED <<pc, panic>>
             ELSE /\ return_value' = None
                  /\ panic' = r.err
                  /\ pc' = "panicked"
                  /\ UNCHANGED iter
    /\ UNCHANGED <<self, self0, build, fnc, initial, rf_fnc, initial_value, rf_result,
                   result, rf_calls, ncall, prev>>

\* Variant leaving the loop one element early.
VecReturn_early ==
    /\ pc = "loop"
    /\ iter >= Len(self.buf)
    /\ rf_result' = return_value
    /\ return_value' = None
    /\ pc' = "rf_returned"
    /\ UNCHANGED <<self, self0, build, fnc, initial, rf_fnc, initial_value, iter, result,
                   panic, applied, rf_calls, ncall, prev>>

\* The iterator is exhausted: return_value is returned.
VecReturn ==
    /\ pc = "loop"
    /\ iter > Len(self.buf)
    /\ rf_result' = return_value
    /\ return_value' = None
    /\ pc' = "rf_returned"
    /\ UNCHANGED <<self, self0, build, fnc, initial, rf_fnc, initial_value, iter, result,
                   panic, applied, rf_calls, ncall, prev>>

\* --------------------------------- <A<T> as Reducable<T>>::reduce_function
\* Variant folding value2 before value1.
A_reduce_function_swapped ==
    /\ pc = "reduce_function"
    /\ self.kind = "A"
    /\ LET f == rf_fnc.val
           first == Application(2, initial_value.val, self.value2)
           r1 == Call(build, f, initial_value.val, self.value2)
       IN IF r1.ok
          THEN LET r2 == Call(build, f, r1.val, self.value1)
               IN /\ applied' = applied \o <<first, Application(1, r1.val, self.value1)>>
                  /\ IF r2.ok
                     THEN /\ rf_result' = Some(r2.val)
                          /\ pc' = "rf_returned"
                          /\ UNCHANGED panic
                     ELSE /\ panic' = r2.err
                          /\ pc' = "panicked"
                          /\ UNCHANGED rf_result
          ELSE /\ applied' = Append(applied, first)
               /\ panic' = r1.err
               /\ pc' = "panicked"
               /\ UNCHANGED rf_result
    /\ initial_value' = None
    /\ UNCHANGED <<self, self0, build, fnc, initial, rf_fnc, return_value, iter, result,
                   rf_calls, ncall, prev>>

\* fnc(fnc(initial, &self.value1), &self.value2)
A_reduce_function ==
    /\ pc = "reduce_function"
    /\ self.kind = "A"
    /\ LET f == rf_fnc.val
           first == Application(1, initial_value.val, self.value1)
           r1 == Call(build, f, initial_value.val, self.value1)
       IN IF r1.ok
          THEN LET r2 == Call(build, f, r1.val, self.value2)
               IN /\ applied' = applied \o <<first, Application(2, r1.val, self.value2)>>
                  /\ IF r2.ok
                     THEN /\ rf_result' = Some(r2.val)
                          /\ pc' = "rf_returned"
                          /\ UNCHANGED panic
                     ELSE /\ panic' = r2.err
                          /\ pc' = "panicked"
                          /\ UNCHANGED rf_result
          ELSE /\ applied' = Append(applied, first)
               /\ panic' = r1.err
               /\ pc' = "panicked"
               /\ UNCHANGED rf_result
    /\ initial_value' = None
    /\ UNCHANGED <<self, self0, build, fnc, initial, rf_fnc, return_value, iter, result,
                   rf_calls, ncall, prev>>

\* ---------------------------------------------------------- the caller
\* The call has ended; the caller notes how, and calls reduce again on the
\* same container with the same function and an `initial` of its choice.
NextCall ==
    /\ Ended
    /\ ncall < MaxCalls
    /\ prev' = [called |-> TRUE, initial |-> initial, outcome |-> Outcome]
    /\ \E i \in Initials(fnc) : initial' = i
    /\ ncall' = ncall + 1
    /\ pc' = "idle"
    /\ rf_fnc' = None
    /\ initial_value' = None
    /\ return_value' = None
    /\ iter' = 0
    /\ rf_result' = None
    /\ result' = None
    /\ panic' = ""
    /\ applied' = <<>>
    /\ rf_calls' = 0
    /\ UNCHANGED <<self, self0, build, fnc>>

Next ==
    \/ Reduce
    \/ ReduceReturn
    \/ VecEnter
    \/ VecLoop
    \/ VecReturn
    \/ A_reduce_function
    \/ NextCall

Spec == Init /\ [][Next]_vars

\* The program is sequential and runs to completion: a step that can be
\* taken is taken.
FairSpec == Spec /\ WF_vars(Next)

\* ------------------------------------ reduce_function of Vec as a function
\* Variant of the loop that visits the elements from the last to the first.
RECURSIVE VecLoopFrom_rev(_, _, _, _, _)
VecLoopFrom_rev(b, buf, f, acc, i) ==
    IF i > Len(buf) THEN Ok(acc)
    ELSE LET r == Call(b, f, acc, buf[Len(buf) + 1 - i])
         IN IF r.ok THEN VecLoopFrom_rev(b, buf, f, r.val, i + 1) ELSE r

\* The loop `for x in self { return_value = fnc(return_value, x); }` from
\* iterator position i with return_value = acc, and the value returned.
RECURSIVE VecLoopFrom(_, _, _, _, _)
VecLoopFrom(b, buf, f, acc, i) ==
    IF i > Len(buf) THEN Ok(acc)
    ELSE LET r == Call(b, f, acc, IterNext(buf, i))
         IN IF r.ok THEN VecLoopFrom(b, buf, f, r.val, IterAdvance(i)) ELSE r

\* buf.reduce_function(f, v) under build b (v is initial_value).
Vec_reduce_function(b, buf, f, v) ==
    VecLoopFrom(b, buf, f, v, 1)

\* ===================================================================
\* Properties
\* ===================================================================

\* f(f(...f(f(v, e1), e2)..., e(n-1)), en), written from the outside in: the
\* outermost application takes the last element.  A panic of an inner
\* application is the outcome of the whole expression.
RECURSIVE LeftFold(_, _, _, _)
LeftFold(b, f, v, s) ==
    IF s = <<>> THEN Ok(v)
    ELSE LET inner == LeftFold(b, f, v, SubSeq(s, 1, Len(s) - 1))
         IN IF inner.ok THEN Call(b, f, inner.val, s[Len(s)]) ELSE inner

\* The starting accumulator the specification prescribes for `initial`.
Resolved == IF initial.some THEN initial.val ELSE Default(fnc)

\* Element of container s at position i.
ElemAt(s, i) ==
    IF s.kind = "Vec" THEN s.buf[i] ELSE IF i = 1 THEN s.value1 ELSE s.value2

\* Number of elements of container s.
Size(s) == IF s.kind = "Vec" THEN Len(s.buf) ELSE 2

\* C1 -- Order preservation: a reduce call on a Vec [e1, ..., en] with
\* Some(v) ends as f(f(...f(f(v, e1), e2)..., e(n-1)), en) does: a
\* left-to-right fold in storage order.
C1_OrderPreservation ==
    (Ended /\ self.kind = "Vec" /\ initial.some)
        => Outcome = LeftFold(build, fnc, initial.val, self.buf)

C1_Witness ==
    /\ pc = "returned"
    /\ self = VecOf(<<1, 0, -1>>)
    /\ fnc = "push"
    /\ initial = Some(<<7>>)
    /\ result = Some(<<7, 1, 0, -1>>)

\* C2 -- Default-value fallback: get_initial yields the contained value when
\* present and R's default otherwise, and a call with None ends as the call
\* with Some(default(R)) on the same container and function does.
C2_DefaultFallback ==
    /\ pc = "reduce_function" => initial_value = Some(Resolved)
    /\ (Ended /\ prev.called /\ prev.initial.some # initial.some
          /\ (prev.initial.some => prev.initial.val = Default(fnc))
          /\ (initial.some => initial.val = Default(fnc)))
        => Outcome = prev.outcome

C2_Witness ==
    /\ pc = "returned"
    /\ fnc = "add"
    /\ prev.called /\ prev.initial = None
    /\ initial = Some(0)
    /\ self = VecOf(<<1, 2, 3, 4, 5>>)
    /\ result = Some(15)
    /\ prev.outcome = Ok(15)

\* C3 -- Identity on empty containers: on a Vec with zero elements reduce
\* returns v for Some(v) and default(R) for None, never fails, and applies
\* the combining function zero times.
C3_EmptyIdentity ==
    (self.kind = "Vec" /\ self.buf = <<>>)
        => /\ pc # "panicked"
           /\ applied = <<>>
           /\ pc = "returned" => result = Some(Resolved)

C3_Witness ==
    /\ pc = "returned"
    /\ fnc = "max"
    /\ self = VecOf(<<>>)
    /\ initial = Some(10)
    /\ result = Some(10)
    /\ applied = <<>>

\* The application recorded as a failed: fnc panics on its accumulator and
\* element.
Fails(a) == ~Call(build, fnc, a.acc, a.cur).ok

\* C4 (as the specification states it) -- every reduce call on a Vec of
\* length n ends having applied the combining function exactly n times, the
\* i-th time to the i-th element, and having produced a final accumulator.
C4_ExactlyNApplications ==
    (Ended /\ self.kind = "Vec")
        => /\ pc = "returned"
           /\ result.some
           /\ Len(applied) = Len(self.buf)
           /\ \A i \in 1..Len(applied) : applied[i].idx = i

\* The counts of C4 for a call in which no application panics, and for one
\* in which an application does.
C4_Counts ==
    self.kind = "Vec"
        => /\ Len(applied) <= Len(self.buf)
           /\ \A i \in 1..Len(applied) :
                  applied[i].idx = i /\ applied[i].cur = self.buf[i]
           /\ pc = "returned" => (Len(applied) = Len(self.buf) /\ result.some)
           /\ pc = "panicked" => (applied # <<>> /\ Fails(applied[Len(applied)])
                                    /\ ~result.some)
           /\ Ended => (pc = "returned" <=> \A i \in 1..Len(applied) : ~Fails(applied[i]))

\* C4 (amended) -- every reduce call on a Vec of length n terminates; when
\* no application of the combining function panics it terminates after
\* exactly n applications, the i-th on the i-th element, with exactly one
\* final accumulator; when an application panics the call ends at that
\* application, after at most n applications made in the same order, with
\* no accumulator.
C4_TerminatesAfterN ==
    /\ []C4_Counts
    /\ (pc = "idle") ~> Ended

C4_Witness ==
    /\ pc = "returned"
    /\ fnc = "max"
    /\ self = VecOf(<<1, -1, 0>>)
    /\ Len(applied) = 3
    /\ result = Some(1)

\* C5 -- Non-mutation: before, during and after every reduce call, whether
\* it returns or panics, the container holds what the caller put in it, and
\* each application got the element at its position, read in place.
C5_NonMutation ==
    /\ self = self0
    /\ \A i \in 1..Len(applied) :
           /\ applied[i].idx \in 1..Size(self)
           /\ applied[i].cur = ElemAt(self, applied[i].idx)

C5_Witness ==
    /\ Ended
    /\ ncall = 2
    /\ self = VecOf(<<0, 1, I32Max>>)
    /\ self0 = VecOf(<<0, 1, I32Max>>)
    /\ Len(applied) >= 1

\* C6 -- Panic propagation: if the combining function panics on an
\* accumulator/element pair reached during the fold, the call ends with that
\* panic and its payload, the failed application is the last one made, and
\* no accumulator is returned or kept.
C6_PanicPropagation ==
    /\ \A i \in 1..Len(applied) :
           Fails(applied[i])
               => /\ pc = "panicked"
                  /\ i = Len(applied)
                  /\ panic = Call(build, fnc, applied[i].acc, applied[i].cur).err
    /\ pc = "panicked"
           => /\ applied # <<>>
              /\ Fails(applied[Len(applied)])
              /\ result = None /\ rf_result = None /\ return_value = None

C6_Witness ==
    /\ pc = "panicked"
    /\ fnc = "div"
    /\ self = VecOf(<<1, 0, 1>>)
    /\ Len(applied) = 2
    /\ panic = "attempt to divide by zero"
    /\ result = None

\* C7 -- Determinism: two reduce calls on the same container with the same
\* combining function and the same initial value end the same way.
C7_Determinism ==
    (Ended /\ prev.called /\ prev.initial.some = initial.some
       /\ (initial.some => prev.initial.val = initial.val))
        => Outcome = prev.outcome

C7_Witness ==
    /\ pc = "returned"
    /\ fnc = "add"
    /\ self = VecOf(<<1, 2>>)
    /\ prev.called /\ prev.initial = Some(10)
    /\ initial = Some(10)
    /\ result = Some(13)
    /\ prev.outcome = Ok(13)

\* C8 -- Delegation: reduce resolves `initial`, invokes the implementer's
\* reduce_function exactly once with fnc and the resolved value, and returns
\* what it returned; for struct A, reduce(f, None) is
\* f(f(default, value1), value2), which is 3 for A{1, 2} under addition.
C8_Delegation ==
    /\ rf_calls = (IF pc = "idle" THEN 0 ELSE 1)
    /\ pc = "reduce_function" => (rf_fnc = Some(fnc) /\ initial_value = Some(Resolved))
    /\ pc = "returned" => (result.some /\ result = rf_result)
    /\ (Ended /\ self.kind = "A")
           => Outcome = LeftFold(build, fnc, Resolved, <<self.value1, self.value2>>)
    /\ (Ended /\ fnc = "add" /\ self = AOf(1, 2) /\ initial = None)
           => Outcome = Ok(3)

C8_Witness ==
    /\ pc = "returned"
    /\ fnc = "add"
    /\ self = AOf(1, 2)
    /\ initial = None
    /\ rf_calls = 1
    /\ result = Some(3)

\* v + s[1] + ... + s[n], summed from the first element on, with whether
\* every partial sum is an i32.
RECURSIVE CheckedSum(_, _)
CheckedSum(v, s) ==
    IF s = <<>> THEN [fits |-> TRUE, sum |-> v]
    ELSE LET h == Head(s)
         IN IF (h > 0 /\ v > I32Max - h) \/ (h < 0 /\ v < I32Min - h)
            THEN [fits |-> FALSE]
            ELSE CheckedSum(v + h, Tail(s))

\* C9 -- Integer sum: on a Vec of integers with (acc, cur) -> acc + cur,
\* reduce with None returns the sum of the elements and with Some(v) returns
\* v plus that sum, in either build, whenever no intermediate sum overflows
\* i32; [1,2,3,4,5] with None gives 15 and [1,2] with Some(10) gives 13.
C9_IntegerSum ==
    (Ended /\ fnc = "add" /\ self.kind = "Vec")
        => LET v == IF initial.some THEN initial.val ELSE 0
               total == CheckedSum(v, self.buf)
           IN /\ total.fits => Outcome = Ok(total.sum)
              /\ (self.buf = <<1, 2, 3, 4, 5>> /\ ~initial.some) => Outcome = Ok(15)
              /\ (self.buf = <<1, 2>> /\ initial = Some(10)) => Outcome = Ok(13)

C9_Witness ==
    /\ pc = "returned"
    /\ fnc = "add"
    /\ self = VecOf(<<1, 2, 3, 4, 5>>)
    /\ initial = None
    /\ result = Some(15)

\* reduce_function over ys starting from what the fold o of a prefix gave
\* (the panic of o if it gave none).
ThenOver(o, ys) ==
    IF o.ok THEN Vec_reduce_function(build, ys, fnc, o.val) ELSE o

\* C10 -- Fold composition: in the Vec loop, after the first k elements the
\* running accumulator is the fold of that prefix from the initial value;
\* and for every split of the Vec into xs ++ ys, reduce_function over
\* xs ++ ys from v is reduce_function over ys from reduce_function over xs
\* from v.  The call ends as reduce_function over the whole Vec does.
C10_FoldComposition ==
    self.kind = "Vec"
        => LET buf == self.buf
               n == Len(self.buf)
               whole == Vec_reduce_function(build, buf, fnc, Resolved)
           IN /\ pc = "loop"
                    => /\ return_value.some
                       /\ Ok(return_value.val)
                            = Vec_reduce_function(build, SubSeq(buf, 1, iter - 1), fnc, Resolved)
                       /\ Vec_reduce_function(build, SubSeq(buf, iter, n), fnc, return_value.val)
                            = whole
              /\ \A k \in 0..n :
                     ThenOver(Vec_reduce_function(build, SubSeq(buf, 1, k), fnc, Resolved),
                              SubSeq(buf, k + 1, n)) = whole
              /\ Ended => Outcome = whole

C10_Witness ==
    /\ pc = "loop"
    /\ fnc = "push"
    /\ self = VecOf(<<-1, 0, 1>>)
    /\ initial = Some(<<7>>)
    /\ iter = 3
    /\ return_value = Some(<<7, -1, 0>>)

====
